---- MODULE Spec2Model ----
(***************************************************************************)
(* orangey: a 128-bit permuted congruential generator (src/src/lib.rs).    *)
(*                                                                         *)
(* u128 and u64 values are kept at their full width as little-endian       *)
(* sequences of bytes (16 and 8 of them), so that every product and sum    *)
(* wraps exactly where the Rust code wraps.  Rust's plain `+` and `-`      *)
(* fault (panic) on overflow in a build with overflow checks and wrap in a *)
(* build without them; the build is the variable overflow_checks.          *)
(***************************************************************************)
EXTENDS Integers, Sequences, FiniteSets, Bags, TLC

VARIABLES
    state,            \* OrangeyCtx.state: u128
    inc,              \* OrangeyCtx.inc: u128
    overflow_checks,  \* the build: TRUE when plain arithmetic faults on overflow
    outcome,          \* how the last call ended: "returned", "panicked", "looping"
    op,               \* the last call made: its name and arguments
    ret,              \* what the last call returned
    pre,              \* the generator as it was when the last call was made
    iter,             \* the iterator that borrows the generator, NoIter when none does
    calls             \* the number of calls made so far

vars == <<state, inc, overflow_checks, outcome, op, ret, pre, iter, calls>>

(***************************************************************************)
(* Bounds of the model.                                                    *)
(***************************************************************************)
MaxCalls == 2      \* calls made on one generator
MaxDelta == 1      \* skip and peek distances 0..MaxDelta (and u128::MAX)
MaxLoop == 40      \* iterations followed in a loop that has no cap
MaxItems == 2      \* items one iterator yields
MaxWidth == 100    \* small widths 3..MaxWidth of the limit computation

(***************************************************************************)
(* Fixed-width unsigned integers.                                          *)
(***************************************************************************)
\* a sequence given as a function on 1..n, evaluated once into its tuple
Tup(f) == f \o <<>>

\* the sum of the entries of a sequence of naturals
Sum(f) == BagCardinality([i \in DOMAIN f |-> f[i] + 1]) - Cardinality(DOMAIN f)

RECURSIVE Carry(_, _, _)
\* the bytes of the number whose k-th base-256 digit is cols[k], truncated
\* to Len(cols) bytes: the carry out of the last byte is dropped
Carry(cols, k, c) ==
    IF k > Len(cols) THEN <<>>
    ELSE LET v == cols[k] + c
         IN  <<v % 256>> \o Carry(cols, k + 1, v \div 256)

\* a number below 2^24 as n bytes
FromNat(v, n) == Tup([k \in 1..n |-> IF k <= 3 THEN (v \div 256^(k - 1)) % 256 ELSE 0])
\* a number written most significant byte first, as in the source
Hex(s) == Tup([k \in 1..Len(s) |-> s[Len(s) + 1 - k]])
Zext(a, n) == Tup([k \in 1..n |-> IF k <= Len(a) THEN a[k] ELSE 0])
Trunc(a, n) == Tup([k \in 1..n |-> a[k]])
IsZero(a) == \A k \in 1..Len(a) : a[k] = 0

\* Wrapping<T> + and * (T of Len(a) bytes)
WrappingAdd(a, b) == Carry(Tup([k \in 1..Len(a) |-> a[k] + b[k]]), 1, 0)
WrappingMul(a, b) ==
    Carry(Tup([k \in 1..Len(a) |-> Sum([i \in 1..k |-> a[i] * b[k + 1 - i]])]), 1, 0)
WrappingNeg(a) == WrappingAdd(Tup([k \in 1..Len(a) |-> 255 - a[k]]), FromNat(1, Len(a)))
WrappingSub(a, b) == WrappingAdd(a, WrappingNeg(b))

\* a < b, a <= b
Lt(a, b) ==
    LET D == {k \in 1..Len(a) : a[k] # b[k]}
    IN  D # {} /\ LET m == CHOOSE k \in D : \A j \in D : j <= k IN a[m] < b[m]
Le(a, b) == ~Lt(b, a)

\* plain a + b and a - b: [val |-> the wrapped result, overflow |-> it wrapped]
PlainAdd(a, b) ==
    LET s == WrappingAdd(Zext(a, Len(a) + 1), Zext(b, Len(a) + 1))
    IN  [val |-> Trunc(s, Len(a)), overflow |-> s[Len(a) + 1] # 0]
PlainSub(a, b) == [val |-> WrappingSub(a, b), overflow |-> Lt(a, b)]

\* bits; the tables hold the operation on every pair of 4-bit values
Bit(v, i) == (v \div 2^i) % 2
AndNibble ==
    [x \in 0..15 |-> [y \in 0..15 |->
        Sum([i \in 1..4 |-> 2^(i - 1) * Bit(x, i - 1) * Bit(y, i - 1)])]]
XorNibble ==
    [x \in 0..15 |-> [y \in 0..15 |->
        Sum([i \in 1..4 |-> 2^(i - 1) * ((Bit(x, i - 1) + Bit(y, i - 1)) % 2)])]]
OnesByte == [x \in 0..255 |-> Sum([i \in 1..8 |-> Bit(x, i - 1)])]
\* the number of bits of x up to its highest set bit
LenByte == [x \in 0..255 |-> Cardinality({i \in 1..8 : x >= 2^(i - 1)})]
AndByte(x, y) == 16 * AndNibble[x \div 16][y \div 16] + AndNibble[x % 16][y % 16]
XorByte(x, y) == 16 * XorNibble[x \div 16][y \div 16] + XorNibble[x % 16][y % 16]
BitAnd(a, b) == Tup([k \in 1..Len(a) |-> AndByte(a[k], b[k])])
BitXor(a, b) == Tup([k \in 1..Len(a) |-> XorByte(a[k], b[k])])
BitOr(a, b) == Tup([k \in 1..Len(a) |-> a[k] + b[k] - AndByte(a[k], b[k])])
\* byte k of a, 0 beyond its width
ByteAt(a, k) == IF k < 1 \/ k > Len(a) THEN 0 ELSE a[k]
\* bit i (0 = least significant) of a, 0 beyond its width
BitAt(a, i) == Bit(ByteAt(a, (i \div 8) + 1), i % 8)
\* a >> n and a << n (n >= 0), bits shifted out are lost
Shr(a, n) ==
    LET q == n \div 8
        r == n % 8
    IN  Tup([k \in 1..Len(a) |->
                (ByteAt(a, k + q) \div 2^r) + (ByteAt(a, k + q + 1) % 2^r) * 2^(8 - r)])
Shl(a, n) ==
    LET q == n \div 8
        r == n % 8
    IN  Tup([k \in 1..Len(a) |->
                (ByteAt(a, k - q) % 2^(8 - r)) * 2^r + (ByteAt(a, k - q - 1) \div 2^(8 - r))])
\* u64::rotate_right(n), u64::count_ones(), u64::leading_zeros()
RotateRight(a, n) ==
    LET w == Len(a)
        q == n \div 8
        r == n % 8
    IN  Tup([k \in 1..w |->
                (a[((k - 1 + q) % w) + 1] \div 2^r) + (a[((k + q) % w) + 1] % 2^r) * 2^(8 - r)])
CountOnes(a) == Sum([k \in 1..Len(a) |-> OnesByte[a[k]]])
\* the number of bits of a up to its highest set bit
BitLen(a) ==
    LET S == {k \in 1..Len(a) : a[k] # 0}
    IN  IF S = {} THEN 0
        ELSE LET m == CHOOSE k \in S : \A j \in S : j <= k
             IN  8 * (m - 1) + LenByte[a[m]]
LeadingZeros(a) == 8 * Len(a) - BitLen(a)

RECURSIVE RemSmall(_, _, _, _)
\* a % d for d below 2^23, a byte of a at a time from the top
RemSmall(a, d, k, r) ==
    IF k = 0 THEN r ELSE RemSmall(a, d, k - 1, (r * 256 + a[k]) % d)

RECURSIVE RemLoop(_, _, _, _)
\* long division, a bit of a at a time from bit i down: the remainder
RemLoop(a, d, i, r) ==
    IF i < 0 THEN r
    ELSE LET r2 == WrappingAdd(Shl(r, 1), FromNat(BitAt(a, i), Len(r)))
         IN  IF Le(d, r2) THEN RemLoop(a, d, i - 1, WrappingSub(r2, d))
             ELSE RemLoop(a, d, i - 1, r2)

\* a % d for d # 0
Rem(a, d) ==
    LET n == Len(a)
        i == BitLen(a) - BitLen(d)
    IN  IF BitLen(d) <= 23
        THEN FromNat(RemSmall(a, d[1] + 256 * d[2] + 65536 * d[3], n, 0), n)
        ELSE IF i < 0 THEN a
        ELSE Trunc(RemLoop(a, Zext(d, n + 1), i, Zext(Shr(a, i + 1), n + 1)), n)

U128(v) == FromNat(v, 16)
U64(v) == FromNat(v, 8)
U128Max == Tup([k \in 1..16 |-> 255])

(***************************************************************************)
(* The generator core.                                                     *)
(***************************************************************************)
MUL == Hex(<<\h23, \h60, \hed, \h05, \h1f, \hc6, \h5d, \ha4,
             \h43, \h85, \hdf, \h64, \h9f, \hcc, \hf6, \h45>>)

Ctx(s, i) == [state |-> s, inc |-> i]
\* what a call leaves: the generator, the value returned, and how the call
\* ended: "returned", "panicked" (an arithmetic overflow under overflow
\* checks), or "looping" (still in an uncapped loop after MaxLoop iterations)
Ok(ctx, val) == [ctx |-> ctx, ret |-> val, outcome |-> "returned"]
Fault(ctx) == [ctx |-> ctx, ret |-> <<>>, outcome |-> "panicked"]
Looping(ctx) == [ctx |-> ctx, ret |-> <<>>, outcome |-> "looping"]

new ==
    Ctx(Hex(<<\hce, \h84, \h80, \h95, \h86, \hcf, \h8d, \h1f,
              \h17, \he1, \he9, \h80, \h5a, \h1b, \h41, \h41>>),
        Hex(<<\hb0, \ha3, \he8, \h5a, \h99, \h2a, \hfe, \h5a,
              \h28, \h0a, \hf6, \hfd, \hee, \hcf, \h02, \h9f>>))

output(s) ==
    RotateRight(BitXor(Trunc(Shr(s, 64), 8), Trunc(s, 8)), Shr(s, 122)[1])

step(ctx) == Ctx(WrappingAdd(WrappingMul(ctx.state, MUL), ctx.inc), ctx.inc)

\* the loop body of advance with cur_mult squared before cur_plus is updated
advance_body_swapped(v) ==
    LET odd == BitAnd(v.delta, U128(1)) # U128(0)
        sq  == WrappingMul(v.cur_mult, v.cur_mult)
    IN  [delta    |-> Shr(v.delta, 1),
         cur_mult |-> sq,
         cur_plus |-> WrappingMul(v.cur_plus, WrappingAdd(sq, U128(1))),
         acc_mult |-> IF odd THEN WrappingMul(v.acc_mult, v.cur_mult) ELSE v.acc_mult,
         acc_plus |-> IF odd
                      THEN WrappingAdd(WrappingMul(v.acc_plus, v.cur_mult), v.cur_plus)
                      ELSE v.acc_plus]

\* the body of the while loop of advance; v holds the loop's variables
advance_body(v) ==
    LET odd == BitAnd(v.delta, U128(1)) # U128(0)
    IN  [delta    |-> Shr(v.delta, 1),
         cur_mult |-> WrappingMul(v.cur_mult, v.cur_mult),
         cur_plus |-> WrappingMul(v.cur_plus, WrappingAdd(v.cur_mult, U128(1))),
         acc_mult |-> IF odd THEN WrappingMul(v.acc_mult, v.cur_mult) ELSE v.acc_mult,
         acc_plus |-> IF odd
                      THEN WrappingAdd(WrappingMul(v.acc_plus, v.cur_mult), v.cur_plus)
                      ELSE v.acc_plus]

\* up to one, two, four and eight turns of while delta > 0 { ... }: the
\* later half of the turns is taken on what the earlier half leaves
advance_turn(v) == IF IsZero(v.delta) THEN v ELSE advance_body(v)
advance_turns2(v) == IF IsZero(v.delta) THEN v ELSE advance_turn(advance_turn(v))
advance_turns4(v) == IF IsZero(v.delta) THEN v ELSE advance_turns2(advance_turns2(v))
advance_turns8(v) == IF IsZero(v.delta) THEN v ELSE advance_turns4(advance_turns4(v))

RECURSIVE advance_loop(_)
\* while delta > 0 { ... }, followed eight turns at a time
advance_loop(v) == IF IsZero(v.delta) THEN v ELSE advance_loop(advance_turns8(v))

\* advance with acc_plus added before the multiplication by acc_mult
advance_plus_first(s, delta, cur_mult, cur_plus) ==
    LET v == advance_loop([delta |-> delta, cur_mult |-> cur_mult, cur_plus |-> cur_plus,
                           acc_mult |-> U128(1), acc_plus |-> U128(0)])
    IN  WrappingMul(v.acc_mult, WrappingAdd(s, v.acc_plus))

advance(s, delta, cur_mult, cur_plus) ==
    LET v == advance_loop([delta |-> delta, cur_mult |-> cur_mult, cur_plus |-> cur_plus,
                           acc_mult |-> U128(1), acc_plus |-> U128(0)])
    IN  WrappingAdd(WrappingMul(v.acc_mult, s), v.acc_plus)

\* skip that jumps one raw step too far
skip_one_more(ctx, delta) ==
    Ctx(advance(ctx.state, WrappingAdd(delta, U128(1)), MUL, ctx.inc), ctx.inc)

skip(ctx, delta) == Ctx(advance(ctx.state, delta, MUL, ctx.inc), ctx.inc)

peek(ctx, delta) ==
    LET d1 == PlainAdd(delta, U128(1))
    IN  IF d1.overflow /\ overflow_checks THEN Fault(ctx)
        ELSE Ok(ctx, output(advance(ctx.state, d1.val, MUL, ctx.inc)))

\* srand without the | 1 on inc
srand_even(ctx, initstate, initseq) ==
    LET c0 == Ctx(U128(0), Shl(initseq, 1))
        c1 == step(c0)
        s2 == PlainAdd(c1.state, initstate)
    IN  IF s2.overflow /\ overflow_checks THEN Fault(c1)
        ELSE Ok(step(Ctx(s2.val, c1.inc)), <<>>)

srand(ctx, initstate, initseq) ==
    LET c0 == Ctx(U128(0), BitOr(Shl(initseq, 1), U128(1)))
        c1 == step(c0)
        s2 == PlainAdd(c1.state, initstate)
    IN  IF s2.overflow /\ overflow_checks THEN Fault(c1)
        ELSE Ok(step(Ctx(s2.val, c1.inc)), <<>>)

rand(ctx) == LET c == step(ctx) IN Ok(c, output(c.state))

(***************************************************************************)
(* f64.  A finite non-negative double is [sig, exp], the number            *)
(* sig * 2^exp, with 2^52 <= sig < 2^53 unless it is zero (sig = 0 and     *)
(* exp = 0).  Every value the samplers compute stays in the normal range.  *)
(***************************************************************************)
F64Zero == [sig |-> U64(0), exp |-> 0]
F64One == [sig |-> Hex(<<\h00, \h10, \h00, \h00, \h00, \h00, \h00, \h00>>), exp |-> 0 - 52]

\* the double nearest to m * 2^e (ties to even), m an unsigned integer
F64Round(m, e) ==
    LET l == BitLen(m)
    IN  IF l = 0 THEN F64Zero
        ELSE IF l <= 53 THEN [sig |-> Shl(Trunc(m, 8), 53 - l), exp |-> e - (53 - l)]
        ELSE LET sh     == l - 53
                 q      == Trunc(Shr(m, sh), 8)
                 half   == BitAt(m, sh - 1) = 1
                 sticky == \E i \in 0..(sh - 2) : BitAt(m, i) = 1
                 up     == half /\ (sticky \/ q[1] % 2 = 1)
                 r      == IF up THEN WrappingAdd(q, U64(1)) ELSE q
             IN  IF BitLen(r) = 54 THEN [sig |-> Shr(r, 1), exp |-> e + sh + 1]
                 ELSE [sig |-> r, exp |-> e + sh]

\* f64::from_bits for the bits of a positive normal double
F64FromBits(bits) ==
    LET MASK == Hex(<<\h00, \h0f, \hff, \hff, \hff, \hff, \hff, \hff>>)
        e    == Shr(bits, 52)[1] + 256 * (Shr(bits, 52)[2] % 8)
    IN  [sig |-> BitOr(BitAnd(bits, MASK), F64One.sig), exp |-> e - 1075]

\* x - 1.0 for 1.0 <= x < 2.0: exact
F64SubOne(x) == F64Round(WrappingSub(x.sig, F64One.sig), x.exp)

\* x * y, rounded
F64Mul(x, y) == F64Round(WrappingMul(Zext(x.sig, 16), Zext(y.sig, 16)), x.exp + y.exp)

\* x > y
F64Gt(x, y) ==
    IF IsZero(x.sig) THEN FALSE
    ELSE IF IsZero(y.sig) THEN TRUE
    ELSE x.exp > y.exp \/ (x.exp = y.exp /\ Lt(y.sig, x.sig))

(***************************************************************************)
(* The sampling layer.                                                     *)
(***************************************************************************)
Range(start, end) == [start |-> start, end |-> end]

\* ... + range.start, v what the plain addition gave
plus_start(ctx, v) == IF v.overflow /\ overflow_checks THEN Fault(ctx) ELSE Ok(ctx, v.val)

RECURSIVE rand_range_loop(_, _, _)
\* if r >= limit { break; }, r what self.peek(i) gave
rand_range_break(ctx, limit, i, r) ==
    IF r.outcome # "returned" \/ Le(limit, r.ret) THEN r
    ELSE rand_range_loop(ctx, limit, i + 1)

\* the loop peeking at offset 0 at every iteration
rand_range_loop_same_offset(ctx, limit, i) ==
    IF i >= MaxLoop THEN Looping(ctx)
    ELSE rand_range_break(ctx, limit, i, peek(ctx, U128(0)))

\* for i in 0.. { r = self.peek(i); if r >= limit { break; } }
rand_range_loop(ctx, limit, i) ==
    IF i >= MaxLoop THEN Looping(ctx)
    ELSE rand_range_break(ctx, limit, i, peek(ctx, U128(i)))

\* return (self.rand() & (distance - 1)) + range.start, r what self.rand() gave
rand_range_pow2(r, distance, start) ==
    plus_start(r.ctx, PlainAdd(BitAnd(r.ret, WrappingSub(distance, U64(1))), start))

\* r + range.start without r %= distance
rand_range_unreduced(r, distance, start) ==
    IF r.outcome # "returned" THEN r
    ELSE plus_start(r.ctx, PlainAdd(r.ret, start))

\* r %= distance; r + range.start, r what the loop left
rand_range_rem(r, distance, start) ==
    IF r.outcome # "returned" THEN r
    ELSE plus_start(r.ctx, PlainAdd(Rem(r.ret, distance), start))

\* u64::MAX % distance in place of the limit
rand_range_limit_of_max(distance) == Rem(Tup([k \in 1..8 |-> 255]), distance)

\* let limit = distance.wrapping_neg() % distance
rand_range_limit(distance) == Rem(WrappingNeg(distance), distance)

\* the power-of-two path and the rejection path, distance the width
rand_range_paths(ctx, range, distance) ==
    IF CountOnes(distance) = 1 THEN rand_range_pow2(rand(ctx), distance, range.start)
    ELSE rand_range_rem(rand_range_loop(ctx, rand_range_limit(distance), 0),
                        distance, range.start)

rand_range(ctx, range) ==
    LET distance == PlainSub(range.end, range.start)
    IN  IF distance.overflow /\ overflow_checks THEN Fault(ctx)
        ELSE IF range.end = range.start THEN Ok(ctx, range.start)
        ELSE rand_range_paths(ctx, range, distance.val)

\* f64::from_bits(i) - 1.0, r what self.rand() gave
uniform_double_bits(r) ==
    LET MASK  == Hex(<<\h00, \h0f, \hff, \hff, \hff, \hff, \hff, \hff>>)
        S_EXP == Hex(<<\h3f, \hf0, \h00, \h00, \h00, \h00, \h00, \h00>>)
    IN  Ok(r.ctx, F64SubOne(F64FromBits(BitOr(BitAnd(r.ret, MASK), S_EXP))))

uniform_double(ctx) == uniform_double_bits(rand(ctx))

RECURSIVE all_doubles_loop(_, _)
\* while significand == 0, r what self.rand() gave at the exponent e
all_doubles_draw(r, e) ==
    IF r.ret # U64(0) THEN [ctx |-> r.ctx, exponent |-> e, significand |-> r.ret]
    ELSE all_doubles_loop(r.ctx, e)

\* the draws of all_doubles: [ctx, exponent, significand], significand zero
\* when the exponent has fallen below -1074
all_doubles_loop(ctx, exponent) ==
    IF exponent - 64 < 0 - 1074
    THEN [ctx |-> ctx, exponent |-> exponent - 64, significand |-> U64(0)]
    ELSE all_doubles_draw(rand(ctx), exponent - 64)

\* (significand | 1) as f64 * (exponent as f64).exp2(); exp2 is 0.0 below
\* the smallest subnormal
all_doubles_result(ctx, significand, exponent) ==
    LET f == F64Round(BitOr(significand, U64(1)), 0)
    IN  IF exponent < 0 - 1074 THEN Ok(ctx, F64Zero)
        ELSE Ok(ctx, [sig |-> f.sig, exp |-> f.exp + exponent])

\* if shift != 0 { ... }, p what self.peek(1) gives
all_doubles_shift(d, shift, p) ==
    IF shift = 0 THEN all_doubles_result(d.ctx, d.significand, d.exponent)
    ELSE IF p.outcome # "returned" THEN p
    ELSE all_doubles_result(d.ctx,
                            BitOr(Shl(d.significand, shift), Shr(p.ret, 64 - shift)),
                            d.exponent - shift)

\* the code after the loop, d what the loop left
all_doubles_fill(d) ==
    IF d.significand = U64(0) THEN Ok(d.ctx, F64Zero)
    ELSE all_doubles_shift(d, LeadingZeros(d.significand), peek(d.ctx, U128(1)))

all_doubles(ctx) == all_doubles_fill(all_doubles_loop(ctx, 0 - 64))

\* the call made on self itself, not on a copy
no_copy(ctx, r) == r

\* let mut new_self = *self: what a call on the copy gave, self untouched
new_self(ctx, r) == [ctx |-> ctx, ret |-> r.ret, outcome |-> r.outcome]

\* the skip and the draw made on self, not on a copy
uniform_double_after_skip(ctx, delta) == uniform_double(skip(ctx, delta))

peek_uniform_double(ctx, delta) == new_self(ctx, uniform_double(skip(ctx, delta)))

RECURSIVE gaussian_loop(_, _)
\* if rsq != 0.0 { break; }, r what self.uniform_double() gave
gaussian_break(r, n) == IF r.ret # F64Zero THEN r ELSE gaussian_loop(r.ctx, n + 1)

\* loop { rsq = self.uniform_double(); if rsq != 0.0 { break; } }
gaussian_loop(ctx, n) ==
    IF n >= MaxLoop THEN Looping(ctx) ELSE gaussian_break(uniform_double(ctx), n)

\* the double u * sqrt(-2 ln(rsq) / rsq), kept as the pair of its operands;
\* r what the loop left
gaussian_result(r) ==
    IF r.outcome # "returned" THEN r
    ELSE Ok(r.ctx, [u |-> peek_uniform_double(r.ctx, U128(1)).ret, rsq |-> r.ret])

gaussian(ctx) == gaussian_result(gaussian_loop(ctx, 0))

\* the expected values the model calls poisson with: 0.0 and 1.33333333
Ev0 == F64Zero
Ev1 == [sig |-> Hex(<<\h00, \h15, \h55, \h55, \h54, \h70, \h44, \hb7>>), exp |-> 0 - 52]
\* (-ev).exp() for those values
exp_neg(ev) ==
    IF ev = Ev0 THEN F64One
    ELSE [sig |-> Hex(<<\h00, \h10, \hde, \hc6, \h88, \hd3, \h33, \hf0>>), exp |-> 0 - 54]

RECURSIVE poisson_loop(_, _, _, _)
\* n += 1; x *= ..., p what self.peek_uniform_double(1) gave and left of self
poisson_body(p, em, n, x) == poisson_loop(p.ctx, em, n + 1, F64Mul(x, p.ret))

\* while x > em { n += 1; x *= self.peek_uniform_double(1); }
poisson_loop(ctx, em, n, x) ==
    IF ~F64Gt(x, em) THEN Ok(ctx, n)
    ELSE IF n >= MaxLoop THEN Looping(ctx)
    ELSE poisson_body(peek_uniform_double(ctx, U128(1)), em, n, x)

\* let mut x = self.uniform_double(), x what that call gave
poisson_start(x, em) == poisson_loop(x.ctx, em, 0, x.ret)

poisson(ctx, ev) == poisson_start(uniform_double(ctx), exp_neg(ev))

peek_range(ctx, delta, range) == new_self(ctx, rand_range(skip(ctx, delta), range))

peek_all_doubles(ctx, delta) == new_self(ctx, all_doubles(skip(ctx, delta)))

peek_gaussian(ctx, delta) == new_self(ctx, gaussian(skip(ctx, delta)))

peek_poisson(ctx, delta, ev) == new_self(ctx, poisson(skip(ctx, delta), ev))

(***************************************************************************)
(* The program: calls made on one generator.                               *)
(***************************************************************************)
Deltas == {U128(d) : d \in 0..MaxDelta}
\* the deltas of skip and peek: those, and 5 (binary 101)
Jumps == Deltas \cup {U128(5)}

\* rand_range arguments: 64..128 (a power-of-two width), 0..3 and
\* 0..2^63+1 (widths that are not), 7..7 (empty) and 5..3 (start > end)
Ranges ==
    { Range(U64(64), U64(128)),
      Range(U64(0), U64(3)),
      Range(U64(0), Hex(<<\h80, \h00, \h00, \h00, \h00, \h00, \h00, \h01>>)),
      Range(U64(7), U64(7)),
      Range(U64(5), U64(3)) }

\* srand arguments <<initstate, initseq>>: (0, 0); (u128::MAX, 0); and a
\* pair that leaves inc = 3 and a state whose next raw outputs are 0 and 3
Seeds ==
    { <<U128(0), U128(0)>>,
      <<U128Max, U128(0)>>,
      <<Hex(<<\hc5, \h81, \ha1, \h57, \h91, \h3f, \h44, \hcd,
              \h10, \hbd, \h43, \hc7, \h05, \h46, \ha9, \h5b>>),
        Hex(<<\h80, \h00, \h00, \h00, \h00, \h00, \h00, \h00,
              \h00, \h00, \h00, \h00, \h00, \h00, \h00, \h01>>)>> }

Evs == {Ev0, Ev1}

\* peek_range arguments: 64..128, 0..3 and 5..3
PeekedRanges == {Range(U64(64), U64(128)), Range(U64(0), U64(3)), Range(U64(5), U64(3))}

Self == Ctx(state, inc)

\* the samplers an iterator wraps, each with its fixed arguments
Samplers ==
    {<<"rand_range", rg>> : rg \in PeekedRanges}
        \cup {<<"uniform_double">>, <<"all_doubles">>, <<"gaussian">>, <<"poisson", Ev1>>}

\* self.S(args) for the sampler sm
sample(ctx, sm) ==
    CASE sm[1] = "rand_range" -> rand_range(ctx, sm[2])
      [] sm[1] = "uniform_double" -> uniform_double(ctx)
      [] sm[1] = "all_doubles" -> all_doubles(ctx)
      [] sm[1] = "gaussian" -> gaussian(ctx)
      [] sm[1] = "poisson" -> poisson(ctx, sm[2])

\* self.peek_S(delta, args) for the sampler sm
peek_sample(ctx, delta, sm) ==
    CASE sm[1] = "rand_range" -> peek_range(ctx, delta, sm[2])
      [] sm[1] = "uniform_double" -> peek_uniform_double(ctx, delta)
      [] sm[1] = "all_doubles" -> peek_all_doubles(ctx, delta)
      [] sm[1] = "gaussian" -> peek_gaussian(ctx, delta)
      [] sm[1] = "poisson" -> peek_poisson(ctx, delta, sm[2])

NoIter == [family |-> "none"]
\* $method_name of iter_wrapper! and of peek_iter_wrapper!
consuming_iter(sm) == [family |-> "consuming", sampler |-> sm, delta |-> U128(0)]
peeking_iter(sm) == [family |-> "peeking", sampler |-> sm, delta |-> U128(0)]

\* next() of iter_wrapper! calling the peek at offset 0 in place of the sampler
consuming_next_peeked(ctx, it) == [it |-> it, r |-> peek_sample(ctx, U128(0), it.sampler)]

\* next() of iter_wrapper!
consuming_next(ctx, it) == [it |-> it, r |-> sample(ctx, it.sampler)]

\* next() of peek_iter_wrapper! that peeks at the delta it has just raised
peeking_next_raised(ctx, it, d) ==
    IF d.overflow /\ overflow_checks THEN [it |-> it, r |-> Fault(ctx)]
    ELSE [it |-> [it EXCEPT !.delta = d.val], r |-> peek_sample(ctx, d.val, it.sampler)]

\* next() of peek_iter_wrapper!, d what self.delta += 1 gave
peeking_next(ctx, it, d) ==
    IF d.overflow /\ overflow_checks THEN [it |-> it, r |-> Fault(ctx)]
    ELSE [it |-> [it EXCEPT !.delta = d.val], r |-> peek_sample(ctx, it.delta, it.sampler)]

\* next() of an iterator: [it |-> the iterator, r |-> what the call leaves]
iter_next(ctx, it) ==
    IF it.family = "consuming" THEN consuming_next(ctx, it)
    ELSE peeking_next(ctx, it, PlainAdd(it.delta, U128(1)))

Init ==
    /\ state = new.state
    /\ inc = new.inc
    /\ overflow_checks \in BOOLEAN
    /\ outcome = "returned"
    /\ op = <<"new">>
    /\ ret = <<>>
    /\ pre = new
    /\ iter = NoIter
    /\ calls = 0

\* a step of the program that leaves r and the iterator it
Step(name, r, it) ==
    /\ outcome = "returned"
    /\ calls < MaxCalls
    /\ state' = r.ctx.state
    /\ inc' = r.ctx.inc
    /\ outcome' = r.outcome
    /\ op' = name
    /\ ret' = r.ret
    /\ pre' = Self
    /\ iter' = it
    /\ calls' = calls + 1
    /\ UNCHANGED overflow_checks

\* a call of a &mut self method: nothing borrows the generator
Call(name, r) == iter.family = "none" /\ Step(name, r, iter)
\* a call of a &self method: no consuming iterator borrows the generator
SharedCall(name, r) == iter.family \in {"none", "peeking"} /\ Step(name, r, iter)

Skip == \E d \in Jumps : Call(<<"skip", d>>, Ok(skip(Self, d), <<>>))
Peek == \E d \in Jumps \cup {U128Max} : Call(<<"peek", d>>, peek(Self, d))
Srand == \E sd \in Seeds : Call(<<"srand", sd[1], sd[2]>>, srand(Self, sd[1], sd[2]))
Rand == Call(<<"rand">>, rand(Self))
RandRange == \E rg \in Ranges : Call(<<"rand_range", rg>>, rand_range(Self, rg))
UniformDouble == Call(<<"uniform_double">>, uniform_double(Self))
AllDoubles == Call(<<"all_doubles">>, all_doubles(Self))
Gaussian == Call(<<"gaussian">>, gaussian(Self))
Poisson == \E ev \in Evs : Call(<<"poisson", ev>>, poisson(Self, ev))
PeekRange ==
    \E d \in Deltas, rg \in PeekedRanges :
        SharedCall(<<"peek_range", d, rg>>, peek_range(Self, d, rg))
PeekUniformDouble ==
    \E d \in Deltas : SharedCall(<<"peek_uniform_double", d>>, peek_uniform_double(Self, d))
PeekAllDoubles ==
    \E d \in Deltas : SharedCall(<<"peek_all_doubles", d>>, peek_all_doubles(Self, d))
PeekGaussian ==
    \E d \in Deltas : SharedCall(<<"peek_gaussian", d>>, peek_gaussian(Self, d))
PeekPoisson ==
    \E d \in Deltas : SharedCall(<<"peek_poisson", d, Ev1>>, peek_poisson(Self, d, Ev1))
\* the iterator it with its history: the generator it was created over and
\* the items it has yielded
Created(it) ==
    [family |-> it.family, sampler |-> it.sampler, delta |-> it.delta,
     start |-> Self, items |-> <<>>]
\* the iterator it after the call of next() that left r
Yielded(it, r) == [it EXCEPT !.items = Append(@, [outcome |-> r.outcome, ret |-> r.ret])]

ConsumingIter ==
    \E sm \in Samplers :
        /\ iter.family = "none"
        /\ Step(<<"iter", "consuming", sm>>, Ok(Self, <<>>), Created(consuming_iter(sm)))
PeekingIter ==
    \E sm \in Samplers :
        /\ iter.family = "none"
        /\ Step(<<"iter", "peeking", sm>>, Ok(Self, <<>>), Created(peeking_iter(sm)))
\* a step of the program that is the call n of next(): an iterator yields
\* up to MaxItems items
NextStep(n) ==
    /\ outcome = "returned"
    /\ Len(iter.items) < MaxItems
    /\ state' = n.r.ctx.state
    /\ inc' = n.r.ctx.inc
    /\ outcome' = n.r.outcome
    /\ op' = <<"next", iter>>
    /\ ret' = n.r.ret
    /\ pre' = Self
    /\ iter' = Yielded(n.it, n.r)
    /\ UNCHANGED <<overflow_checks, calls>>
IterNext == iter.family # "none" /\ NextStep(iter_next(Self, iter))
\* the iterator goes out of scope and its borrow ends
IterDrop == iter.family # "none" /\ Step(<<"drop">>, Ok(Self, <<>>), NoIter)

Next ==
    \/ Skip
    \/ Peek
    \/ Srand
    \/ Rand
    \/ RandRange
    \/ UniformDouble
    \/ AllDoubles
    \/ Gaussian
    \/ Poisson
    \/ PeekRange
    \/ PeekUniformDouble
    \/ PeekAllDoubles
    \/ PeekGaussian
    \/ PeekPoisson
    \/ ConsumingIter
    \/ PeekingIter
    \/ IterNext
    \/ IterDrop

Spec == Init /\ [][Next]_vars

(***************************************************************************)
(* Properties.  op is the last call and its arguments, pre the generator   *)
(* before it, ret and outcome what it gave, state and inc the generator    *)
(* after it.                                                               *)
(***************************************************************************)
\* the value of a u128 below 2^24
ToNat(a) == a[1] + 256 * a[2] + 65536 * a[3]

RECURSIVE StepN(_, _)
\* the generator after n raw steps
StepN(ctx, n) == IF n = 0 THEN ctx ELSE StepN(step(ctx), n - 1)

RECURSIVE RandN(_, _)
\* what the last of n >= 1 consecutive rand() calls gives
RandN(ctx, n) == IF n = 1 THEN rand(ctx) ELSE RandN(rand(ctx).ctx, n - 1)

RECURSIVE RandRangeN(_, _, _)
\* what the last of n >= 1 consecutive rand_range(range) calls gives
RandRangeN(ctx, range, n) ==
    LET r == rand_range(ctx, range)
    IN  IF n = 1 \/ r.outcome # "returned" THEN r ELSE RandRangeN(r.ctx, range, n - 1)

\* the range takes rand_range to its rejection loop
OnRejectionPath(range) ==
    Lt(range.start, range.end) /\ CountOnes(WrappingSub(range.end, range.start)) # 1

\* the draw at peek offset i is below the limit of the range
Rejected(ctx, range, i) ==
    LET distance == WrappingSub(range.end, range.start)
    IN  Lt(peek(ctx, U128(i)).ret, Rem(WrappingNeg(distance), distance))

\* the peek offset of the first draw of ctx the range accepts
AcceptedAt(ctx, range) ==
    CHOOSE k \in 0..MaxLoop :
        ~Rejected(ctx, range, k) /\ \A j \in 0..(k - 1) : Rejected(ctx, range, j)

PeekOps ==
    {"peek", "peek_range", "peek_uniform_double", "peek_all_doubles", "peek_gaussian",
     "peek_poisson"}

\* C1: skip(delta) leaves inc unchanged and state equal to the state delta
\* raw steps reach; rand() after skip(k) gives what the last of k+1
\* consecutive rand() calls from the original generator gives; skip(0)
\* changes nothing.
SkipIsDeltaSteps ==
    op[1] = "skip" =>
        /\ outcome = "returned"
        /\ inc = pre.inc
        /\ state = StepN(pre, ToNat(op[2])).state
        /\ rand(Self).ret = RandN(pre, ToNat(op[2]) + 1).ret
        /\ (op[2] = U128(0) => state = pre.state)

\* skip(5) has run on a reseeded generator
SkippedFive == op[1] = "skip" /\ op[2] = U128(5) /\ pre.inc = U128(3) /\ state # pre.state

\* C2: for every delta, peek(delta) returns what rand() returns after
\* skip(delta), the value of the last of delta+1 consecutive rand() calls.
PeekIsFutureRand ==
    op[1] = "peek" => outcome = "returned" /\ ret = rand(skip(pre, op[2])).ret

\* C3: peek and every peek_ sampler leave state and inc as they were.
PeeksLeaveGenerator == op[1] \in PeekOps => state = pre.state /\ inc = pre.inc

\* peek_range(1, 0..3) has returned on a reseeded generator
PeekedRangeAhead ==
    /\ op[1] = "peek_range"
    /\ op[2] = U128(1)
    /\ op[3] = Range(U64(0), U64(3))
    /\ outcome = "returned"
    /\ pre.inc = U128(3)

\* C4: when rand_range returns by its rejection loop, having accepted the
\* draw at peek offset k, the generator has advanced by k+1 raw steps.
RejectionAdvancesState ==
    (op[1] = "rand_range" /\ outcome = "returned" /\ OnRejectionPath(op[2])) =>
        state = StepN(pre, AcceptedAt(pre, op[2]) + 1).state

\* C5: for start <= end, rand_range returns; the value is start when
\* start = end and otherwise at least start and below end.
RangeBounds ==
    (op[1] = "rand_range" /\ Le(op[2].start, op[2].end)) =>
        /\ outcome = "returned"
        /\ IF op[2].start = op[2].end THEN ret = op[2].start
           ELSE Le(op[2].start, ret) /\ Lt(ret, op[2].end)

\* rand_range has returned by its rejection loop after rejecting a draw
ReturnedAfterRejection ==
    /\ op[1] = "rand_range"
    /\ outcome = "returned"
    /\ OnRejectionPath(op[2])
    /\ AcceptedAt(pre, op[2]) > 0

\* C6: inc is odd in every generator, and only new and srand change it.
IncOdd == inc[1] % 2 = 1 /\ (op[1] \notin {"new", "srand"} => inc = pre.inc)

\* srand has returned and left an inc that is not the one of new
Reseeded == op[1] = "srand" /\ outcome = "returned" /\ inc = U128(3)

\* C7: srand never faults; it leaves inc = (initseq << 1) | 1 and
\* state = (inc + initstate) * MUL + inc, all modulo 2^128.
SrandWraps ==
    op[1] = "srand" =>
        /\ outcome = "returned"
        /\ inc = BitOr(Shl(op[3], 1), U128(1))
        /\ state = WrappingAdd(WrappingMul(WrappingAdd(inc, op[2]), MUL), inc)

\* C8: for start > end, rand_range does not fault and returns a value at
\* least end and below start.
RangeNormalised ==
    (op[1] = "rand_range" /\ Lt(op[2].end, op[2].start)) =>
        outcome = "returned" /\ Le(op[2].end, ret) /\ Lt(ret, op[2].start)

\* C9: peek_range(delta, range) gives what the last of delta+1 consecutive
\* rand_range(range) calls from the same generator gives.
PeekRangeIsFutureRandRange ==
    op[1] = "peek_range" =>
        LET r == RandRangeN(pre, op[3], ToNat(op[2]) + 1)
        IN  outcome = r.outcome /\ ret = r.ret

\* the sampler a peek_ call looks ahead at, with the call's arguments
PeekedSampler(call) ==
    CASE call[1] = "peek_range" -> <<"rand_range", call[3]>>
      [] call[1] = "peek_uniform_double" -> <<"uniform_double">>
      [] call[1] = "peek_all_doubles" -> <<"all_doubles">>
      [] call[1] = "peek_gaussian" -> <<"gaussian">>
      [] call[1] = "peek_poisson" -> <<"poisson", call[3]>>

\* C11: what peek_S(0) gives is what the real S() called next, with the same
\* arguments, gives.
PeekZeroIsNextSample ==
    (op[1] \in PeekOps \ {"peek"} /\ op[2] = U128(0)) =>
        LET r == sample(Self, PeekedSampler(op))
        IN  outcome = r.outcome /\ ret = r.ret

\* peek_gaussian(0) has returned on a reseeded generator
PeekedGaussianNow ==
    op[1] = "peek_gaussian" /\ op[2] = U128(0) /\ outcome = "returned" /\ inc = U128(3)

\* what a call left, as an iterator's history keeps it
Item(r) == [outcome |-> r.outcome, ret |-> r.ret]

RECURSIVE NextItems(_, _, _)
\* the first n items of the iterator it over the generator ctx
NextItems(ctx, it, n) ==
    IF n = 0 THEN <<>>
    ELSE LET y == iter_next(ctx, it)
         IN  <<Item(y.r)>> \o NextItems(y.r.ctx, y.it, n - 1)

\* C12: a peeking iterator starts at offset 0 and adds 1 at every next();
\* its n-th item (n from 0) is peek_S(n); it leaves state and inc as they
\* were; every next() yields an item; and another peeking iterator created
\* over the same generator yields the same items.
PeekingIterator ==
    /\ (op[1] = "iter" /\ op[2] = "peeking") => iter.delta = U128(0)
    /\ (op[1] = "next" /\ op[2].family = "peeking") =>
           /\ Self = iter.start
           /\ Len(iter.items) = Len(op[2].items) + 1
           /\ iter.delta = U128(Len(iter.items))
           /\ \A n \in 1..Len(iter.items) :
                  iter.items[n] = Item(peek_sample(iter.start, U128(n - 1), iter.sampler))
           /\ iter.items = NextItems(Self, peeking_iter(iter.sampler), Len(iter.items))

\* a peeking iterator of gaussian has yielded its second item
PeekedTwoGaussians ==
    /\ op[1] = "next"
    /\ iter.family = "peeking"
    /\ iter.sampler = <<"gaussian">>
    /\ Len(iter.items) = 2
    /\ outcome = "returned"

\* C13: the draw gaussian takes through peek_uniform_double(1) is the next
\* stream value: the one the next real uniform_double() returns from the
\* state gaussian leaves.
GaussianPeeksNextDraw ==
    (op[1] = "gaussian" /\ outcome = "returned") => ret.u = uniform_double(Self).ret

RECURSIVE ZeroDraws(_, _)
\* how many of the next raw outputs of ctx, up to n, are zero before the
\* first that is not
ZeroDraws(ctx, n) ==
    IF n = 0 \/ rand(ctx).ret # U64(0) THEN 0 ELSE 1 + ZeroDraws(rand(ctx).ctx, n - 1)

\* C14: after k zero draws and a nonzero draw with z leading zero bits,
\* all_doubles applies the exponent -64 - 64k - z to the normalized 64-bit
\* significand S, 2^63 <= S < 2^64: the result is at least 2^(-1 - 64k - z)
\* and, rounding included, at most 2^(-64k - z).
AllDoublesExponent ==
    (op[1] = "all_doubles" /\ outcome = "returned" /\ ZeroDraws(pre, MaxLoop) < 16) =>
        LET k == ZeroDraws(pre, MaxLoop)
            z == LeadingZeros(RandN(pre, k + 1).ret)
        IN  \/ ret.exp + 52 = 0 - 1 - 64 * k - z
            \/ ret = [sig |-> F64One.sig, exp |-> 0 - 64 * k - z - 52]

(***************************************************************************)
(* The limit of rand_range as a function of the width alone.               *)
(***************************************************************************)
\* 2^64, in 16 bytes
TwoTo64 == Shl(U128(1), 64)

\* widths that are not a power of two: the small ones, and large ones
\* around 2^32, 2^63 and 2^64
Widths ==
    {U64(w) : w \in {v \in 3..MaxWidth : \A e \in 0..7 : v # 2^e}}
        \cup { Hex(<<\h00, \h00, \h00, \h00, \hff, \hff, \hff, \hff>>),
               Hex(<<\h00, \h00, \h00, \h01, \h00, \h00, \h00, \h01>>),
               Hex(<<\h7f, \hff, \hff, \hff, \hff, \hff, \hff, \hff>>),
               Hex(<<\h80, \h00, \h00, \h00, \h00, \h00, \h00, \h01>>),
               Hex(<<\haa, \haa, \haa, \haa, \haa, \haa, \haa, \haa>>),
               Hex(<<\hff, \hff, \hff, \hff, \hff, \hff, \hff, \hfe>>),
               Hex(<<\hff, \hff, \hff, \hff, \hff, \hff, \hff, \hff>>) }

\* a width is given
LimitInit ==
    /\ state = new.state
    /\ inc = new.inc
    /\ overflow_checks \in BOOLEAN
    /\ outcome = "returned"
    /\ op \in {<<"width", w>> : w \in Widths}
    /\ ret = <<>>
    /\ pre = new
    /\ iter = NoIter
    /\ calls = 0

\* rand_range computes the limit of the width
Limit ==
    /\ op[1] = "width"
    /\ op' = <<"limit", op[2]>>
    /\ ret' = rand_range_limit(op[2])
    /\ UNCHANGED <<state, inc, overflow_checks, outcome, pre, iter, calls>>

LimitNext == Limit

LimitSpec == LimitInit /\ [][LimitNext]_vars

\* C15: for a width that is not a power of two the limit is 2^64 mod width,
\* and the accepted values, limit .. 2^64 - 1, are a whole number of runs
\* of width consecutive values: as many in each residue class modulo width.
LimitUnbiased ==
    op[1] = "limit" =>
        /\ Zext(ret, 16) = Rem(TwoTo64, Zext(op[2], 16))
        /\ Lt(ret, op[2])
        /\ IsZero(Rem(WrappingSub(TwoTo64, Zext(ret, 16)), Zext(op[2], 16)))

\* the limit of the width 2^63 + 1 has been computed and is not zero
LimitOfLargeWidth ==
    /\ op = <<"limit", Hex(<<\h80, \h00, \h00, \h00, \h00, \h00, \h00, \h01>>)>>
    /\ ret = Hex(<<\h7f, \hff, \hff, \hff, \hff, \hff, \hff, \hff>>)

\* rand_range(range) comes to its rejection loop: the width is computed
\* without a fault, is not zero and is not a power of two
EntersLoop(range) ==
    /\ ~overflow_checks \/ Le(range.start, range.end)
    /\ range.start # range.end
    /\ CountOnes(WrappingSub(range.end, range.start)) # 1

\* C16: the rejection loop, which has no cap, comes to a draw at least the
\* limit and rand_range returns: here within MaxLoop iterations.
RejectionLoopReturns ==
    (op[1] = "rand_range" /\ EntersLoop(op[2])) =>
        outcome = "returned" /\ AcceptedAt(pre, op[2]) < MaxLoop

\* rand_range has returned after its loop rejected two draws
ReturnedAfterTwoRejections ==
    /\ op[1] = "rand_range"
    /\ EntersLoop(op[2])
    /\ outcome = "returned"
    /\ AcceptedAt(pre, op[2]) >= 2

RECURSIVE Decay(_, _, _, _)
\* how many times x is multiplied by u until it is no longer above em,
\* counted from n
Decay(x, u, em, n) ==
    IF ~F64Gt(x, em) \/ n >= MaxLoop THEN n
    ELSE Decay(F64Mul(x, u), u, em, n + 1)

\* poisson's result when one draw is consumed from g and every iteration
\* multiplies by the double peeked at offset 1 of the generator it leaves
OneDrawPoisson(g, ev) ==
    Decay(uniform_double(g).ret, peek_uniform_double(step(g), U128(1)).ret, exp_neg(ev), 0)

\* C17: a call of poisson leaves the generator one raw step after the one it
\* was made on, whatever count it returns, and the count is the one obtained
\* by multiplying the consumed draw by one and the same peeked double.
PoissonAdvancesOneStep ==
    (op[1] = "poisson" /\ outcome = "returned") =>
        /\ Self = step(pre)
        /\ ret = OneDrawPoisson(pre, op[2])

\* poisson has returned a count of two at least: its loop peeked twice
PoissonLoopedTwice == op[1] = "poisson" /\ outcome = "returned" /\ ret >= 2

\* the deltas of a second skip: those of skip, and u128::MAX, with which
\* the sum of the two deltas wraps
SecondJumps == Jumps \cup {U128Max}

\* both, the generator skip(a) and then skip(b) leave of g, is the one
\* skip((a + b) mod 2^128) leaves of it and the one skip(b) and then skip(a)
\* leave of it
ComposedSkips(both, g, a, b) ==
    /\ both = skip(g, WrappingAdd(a, b))
    /\ both = skip(skip(g, b), a)

\* C18: skip(a) followed by skip(b) leaves the generator that one
\* skip((a + b) mod 2^128) leaves, and the one skip(b) followed by skip(a)
\* leaves.
SkipComposes ==
    op[1] = "skip" =>
        \A b \in SecondJumps : ComposedSkips(skip(Self, b), pre, op[2], b)

\* skip(5) has moved the generator, and skip(u128::MAX) after it leaves what
\* skip(4) leaves: the sum of the deltas has wrapped
SkippedAroundPeriod ==
    /\ op = <<"skip", U128(5)>>
    /\ Self # pre
    /\ skip(Self, U128Max) = skip(pre, U128(4))
    /\ skip(Self, U128Max) # Self

\* C19: next() of a consuming iterator is the sampler called on the live
\* generator; the items uniform_double_iter() has yielded are the items
\* peek_uniform_double_iter() yields over the generator the iterator was
\* created on, which the peeking iterator leaves as it was, while the
\* consuming iterator has moved it one raw step per item.
ConsumingIterator ==
    (op[1] = "next" /\ op[2].family = "consuming") =>
        /\ Self = sample(pre, iter.sampler).ctx
        /\ iter.items = Append(op[2].items, Item(sample(pre, iter.sampler)))
        /\ iter.sampler = <<"uniform_double">> =>
               /\ iter.items =
                      NextItems(iter.start, peeking_iter(iter.sampler), Len(iter.items))
               /\ \A n \in 1..Len(iter.items) :
                      peek_sample(iter.start, U128(n - 1), iter.sampler).ctx = iter.start
               /\ Self = StepN(iter.start, Len(iter.items))
               /\ Self # iter.start

\* uniform_double_iter() has yielded its second item
ConsumedTwoDoubles ==
    /\ op[1] = "next"
    /\ iter.family = "consuming"
    /\ iter.sampler = <<"uniform_double">>
    /\ Len(iter.items) = 2
    /\ iter.items[1] # iter.items[2]
====
